---------------------------- MODULE Spec2Model ----------------------------
(***************************************************************************)
(* A model of the e-paper display service: src/display/epaper.py (hardware *)
(* probe, capability flag, display_image, display_text) as it is called    *)
(* from the request threads of src/app.py.                                 *)
(*                                                                         *)
(*   Spec        the display sessions: two request threads, each running   *)
(*               one display_image or display_text call, on the Real or    *)
(*               the Simulated backend, with a fault possible at every     *)
(*               stage that can raise.                                     *)
(*   SpecLayout  the layout part of display_text (lines 113-146) unfolded  *)
(*               statement by statement, the font measurement being an     *)
(*               arbitrary answer of the font engine.                      *)
(*   SpecProbe   is_raspberry_pi and the module-level computation of       *)
(*               PI_AVAILABLE (lines 13-43).                               *)
(***************************************************************************)
EXTENDS Integers, Sequences, FiniteSets, TLC

VARIABLES
    PI_AVAILABLE,   \* the module-level capability flag (epaper.py:33-43)
    pc,             \* per request thread: the statement it is at
    req,            \* per request thread: the call and its arguments
    image,          \* per request thread: the local `image`
    result,         \* per request thread: what the call returned
    raised,         \* per request thread: the stage that raised, if any
    log,            \* the global order of driver operations and settle waits
    artifact,       \* content of bmps/text_preview.bmp
    epd,            \* per request thread: the local `epd`
    lay,            \* SpecLayout: the locals of one display_text call
    probe,          \* the environment and locals of module load
    http            \* SpecHttp: the request handlers of app.py and bmps/

vars ==
    <<PI_AVAILABLE, pc, req, image, result, raised, log, artifact, epd, lay, probe,
      http>>

\* the locals of the request threads and what they share
threadVars == <<pc, req, image, result, raised, log, artifact, epd>>

sessionVars == <<PI_AVAILABLE, threadVars>>

(***************************************************************************)
(* Program constants.                                                      *)
(***************************************************************************)
SETTLE == 2
CLEAR_FILL == 255
DEFAULT_WIDTH == 122
DEFAULT_HEIGHT == 250
SEED_SIZE == 40
SIZE_STEP == 2
MIN_SIZE == 8
MARGIN == 10

(***************************************************************************)
(* Bounds of the model.                                                    *)
(***************************************************************************)
MaxDim == 12
MaxBox == 3

None == [none |-> TRUE]

(***************************************************************************)
(* Images.  A canvas is its size, what is drawn on it and how far it has   *)
(* been turned.                                                            *)
(***************************************************************************)
NewImage(w, h) == [width |-> w, height |-> h, ink |-> "", rot |-> 0]

\* Image.new raises ValueError for a negative dimension
ValidSize(w, h) == w >= 0 /\ h >= 0

\* lines 113-117: the working size, swapped when rotating
LayoutSize(max_width, max_height, rotate) ==
    IF rotate THEN <<max_height, max_width>> ELSE <<max_width, max_height>>

\* line 141: draw.text(..., fill=0); the empty string leaves the canvas white
DrawText(img, text) == [img EXCEPT !.ink = text]

Rotate270NoExpand(img) == [img EXCEPT !.rot = 270]

\* line 146: image.rotate(270, expand=True): the bounding box is turned too
Rotate270Expand(img) ==
    [img EXCEPT !.width = img.height, !.height = img.width, !.rot = 270]

\* lines 113-146 as one function of the arguments (the font search chooses
\* the glyph size only; it changes neither the canvas size nor the text)
Render(r) ==
    LET sz    == LayoutSize(r.max_width, r.max_height, r.rotate)
        drawn == DrawText(NewImage(sz[1], sz[2]), r.text)
    IN  IF r.rotate THEN Rotate270Expand(drawn) ELSE drawn

\* Image.open(image_path): lines 76 and 86
Paths == {"valid.bmp", "missing.bmp", "truncated.bmp"}
Opens(path) == path # "missing.bmp"
\* epd.getbuffer(image) loads and converts the pixel data: line 77
Encodes(path) == path = "valid.bmp"
OpenImage(path) ==
    [width |-> DEFAULT_WIDTH, height |-> DEFAULT_HEIGHT, ink |-> path, rot |-> 0]

(***************************************************************************)
(* The display sessions.                                                   *)
(***************************************************************************)
Threads == {"t1", "t2"}

\* the display_text calls the request threads make: the defaults of app.py
\* (rotate is left True), and a direct call that does not rotate
TextArgs ==
    {<<"Hi", DEFAULT_WIDTH, DEFAULT_HEIGHT, TRUE>>,
     <<"", MaxDim, MaxDim + 1, FALSE>>,
     <<"Hi", MaxDim, 0 - 1, TRUE>>}

ImageReq(p) ==
    [kind |-> "image", path |-> p, text |-> "", max_width |-> DEFAULT_WIDTH,
     max_height |-> DEFAULT_HEIGHT, rotate |-> FALSE]
TextReq(txt, w, h, rot) ==
    [kind |-> "text", path |-> "", text |-> txt, max_width |-> w,
     max_height |-> h, rotate |-> rot]
NoReq ==
    [kind |-> "none", path |-> "", text |-> "", max_width |-> DEFAULT_WIDTH,
     max_height |-> DEFAULT_HEIGHT, rotate |-> FALSE]

Event(t, o, a, good) == [s |-> t, op |-> o, arg |-> a, ok |-> good]

DriverOps == {"init", "clear", "push", "sleep"}

InTry_FontOutside(stage) == stage # "layout"

\* Every statement of display_image (71-89) and display_text (107-165) is
\* inside the try block of its function.
InTry(stage) == TRUE

FaultTarget_Finally(stage) == IF stage = "display" THEN "settle2" ELSE "except"

\* lines 90-92 and 166-168: `except Exception` is where a fault lands
FaultTarget(stage) == "except"

\* Where control goes when `stage` raises.
OnFault(stage) == IF InTry(stage) THEN FaultTarget(stage) ELSE "raised"

\* lines 89/165 `return True`, lines 90-92/166-168 `return False`, and an
\* exception that leaves the function: the call is over, with its outcome
Outcome(target) ==
    CASE target = "return" -> "True"
      [] target = "except" -> "False"
      [] target = "raised" -> "raised"
      [] OTHER -> "none"

\* thread t goes on at `target`
Goto(t, target) ==
    /\ pc' = [pc EXCEPT ![t] = IF Outcome(target) = "none" THEN target ELSE "done"]
    /\ result' = [result EXCEPT ![t] = Outcome(target)]
    /\ raised' = raised

\* `stage` raises in thread t
Raise(t, stage) ==
    /\ pc' = [pc EXCEPT ![t] =
                 IF Outcome(OnFault(stage)) = "none" THEN OnFault(stage) ELSE "done"]
    /\ result' = [result EXCEPT ![t] = Outcome(OnFault(stage))]
    /\ raised' = [raised EXCEPT ![t] = stage]

AfterClear_NoWait == "body"

\* init_and_clear_display line 55: time.sleep(2) follows epd.Clear
AfterClear == "settle1"

AfterDisplay_NoWait == "sleep"

\* lines 78 and 152: time.sleep(2) follows epd.display
AfterDisplay == "settle2"

Bool(b) == IF b THEN "True" ELSE "False"

\* what `from lib.waveshare_epd import epd2in13` can do
ImportOutcomes == {"ok", "ImportError", "RuntimeError"}

LoadedFlag_IgnoreImport(ret, imp) == ret

\* lines 33-43: PI_AVAILABLE is True when the probe said so and the import
\* went through; an ImportError, or a probe that said no, makes it False
LoadedFlag(ret, imp) == IF ret = "True" /\ imp = "ok" THEN "True" ELSE "False"

\* line 38 catches ImportError only: anything else the import raises ends
\* the module load
LoadCrashes(ret, imp) == ret = "True" /\ imp \notin {"ok", "ImportError"}

Backend_Swapped(flag, real, mock) == IF flag THEN mock ELSE real

\* lines 72 and 148: `if PI_AVAILABLE:` chooses the branch of the call
Backend(flag, real, mock) == IF flag THEN real ELSE mock

\* line 50: `if PI_AVAILABLE:` inside init_and_clear_display
InnerCheck == PI_AVAILABLE

TextEntry_InitFirst == "init"

\* display_text starts with the layout (lines 109-146); the driver comes
\* after it (lines 148-155)
TextEntry == "layout"

\* The state once the module is loaded: `probe` keeps what the flag was
\* computed from.
Init ==
    /\ \E r \in BOOLEAN, i \in ImportOutcomes :
          /\ ~LoadCrashes(Bool(r), i)
          /\ probe = [pc |-> "loaded", ret |-> Bool(r), import |-> i,
                      flag |-> LoadedFlag(Bool(r), i)]
          /\ PI_AVAILABLE = (LoadedFlag(Bool(r), i) = "True")
    /\ pc = [t \in Threads |-> "idle"]
    /\ req = [t \in Threads |-> NoReq]
    /\ image = [t \in Threads |-> None]
    /\ result = [t \in Threads |-> "none"]
    /\ raised = [t \in Threads |-> "none"]
    /\ log = <<>>
    /\ artifact = None
    /\ epd = [t \in Threads |-> "unset"]
    /\ http = None
    /\ lay = None

\* app.py:36 - a request thread enters display_image(file_path)
CallDisplayImage(t) ==
    /\ pc[t] = "idle"
    /\ \E p \in Paths : req' = [req EXCEPT ![t] = ImageReq(p)]
    /\ Goto(t, Backend(PI_AVAILABLE, "init", "mock_image"))
    /\ UNCHANGED <<PI_AVAILABLE, image, log, artifact, epd, lay, probe, http>>

\* app.py:97 - a request thread enters display_text(text, max_width, max_height)
CallDisplayText(t) ==
    /\ pc[t] = "idle"
    /\ \E a \in TextArgs :
          req' = [req EXCEPT ![t] = TextReq(a[1], a[2], a[3], a[4])]
    /\ Goto(t, TextEntry)
    /\ UNCHANGED <<PI_AVAILABLE, image, log, artifact, epd, lay, probe, http>>

\* display_text lines 109-146: font load, canvas, autofit, draw, rotate
Layout(t) ==
    /\ pc[t] = "layout"
    /\ \E fault \in BOOLEAN :
          IF fault \/ ~ValidSize(req[t].max_width, req[t].max_height)
          THEN /\ Raise(t, "layout")
               /\ image' = image
          ELSE /\ Goto(t, Backend(PI_AVAILABLE, "init", "mock_text"))
               /\ image' = [image EXCEPT ![t] = Render(req[t])]
    /\ UNCHANGED <<PI_AVAILABLE, req, log, artifact, epd, lay, probe, http>>

\* init_and_clear_display lines 50-53: epd = EPD(); epd.init(epd.lut_full_update);
\* lines 57-59: without the flag it only prints and returns None
EpdInit(t) ==
    /\ pc[t] = "init"
    /\ IF InnerCheck
       THEN /\ epd' = [epd EXCEPT ![t] = "EPD"]
            /\ \E fault \in BOOLEAN :
                  /\ log' = Append(log, Event(t, "init", "lut_full_update", ~fault))
                  /\ IF fault THEN Raise(t, "init") ELSE Goto(t, "clear")
       ELSE /\ epd' = [epd EXCEPT ![t] = "None"]
            /\ log' = log
            /\ Goto(t, "body")
    /\ UNCHANGED <<PI_AVAILABLE, req, image, artifact, lay, probe, http>>

\* init_and_clear_display line 54: epd.Clear(0xFF)
EpdClear(t) ==
    /\ pc[t] = "clear"
    /\ \E fault \in BOOLEAN :
          /\ log' = Append(log, Event(t, "clear", CLEAR_FILL, ~fault))
          /\ IF fault THEN Raise(t, "clear") ELSE Goto(t, AfterClear)
    /\ UNCHANGED <<PI_AVAILABLE, req, image, artifact, epd, lay, probe, http>>

\* init_and_clear_display lines 55-56: time.sleep(2); return epd
Settle1(t) ==
    /\ pc[t] = "settle1"
    /\ log' = Append(log, Event(t, "wait", SETTLE, TRUE))
    /\ Goto(t, "body")
    /\ UNCHANGED <<PI_AVAILABLE, req, image, artifact, epd, lay, probe, http>>

\* display_image line 76: image = Image.open(image_path); in display_text the
\* canvas is already there (line 150 only prints)
Body(t) ==
    /\ pc[t] = "body"
    /\ IF req[t].kind = "image"
       THEN IF Opens(req[t].path)
            THEN /\ image' = [image EXCEPT ![t] = OpenImage(req[t].path)]
                 /\ Goto(t, "display")
            ELSE /\ image' = image
                 /\ Raise(t, "open")
       ELSE /\ image' = image
            /\ Goto(t, "display")
    /\ UNCHANGED <<PI_AVAILABLE, req, log, artifact, epd, lay, probe, http>>

\* lines 77 and 151: epd.display(epd.getbuffer(image)); getbuffer raises
\* before anything is sent (and None has no getbuffer), display may raise
\* while sending
EpdDisplay(t) ==
    /\ pc[t] = "display"
    /\ IF epd[t] # "EPD" \/ (req[t].kind = "image" /\ ~Encodes(req[t].path))
       THEN /\ log' = log
            /\ Raise(t, "getbuffer")
       ELSE \E fault \in BOOLEAN :
               /\ log' = Append(log, Event(t, "push", image[t], ~fault))
               /\ IF fault THEN Raise(t, "display") ELSE Goto(t, AfterDisplay)
    /\ UNCHANGED <<PI_AVAILABLE, req, image, artifact, epd, lay, probe, http>>

\* lines 78 and 152: time.sleep(2)
Settle2(t) ==
    /\ pc[t] = "settle2"
    /\ log' = Append(log, Event(t, "wait", SETTLE, TRUE))
    /\ Goto(t, "sleep")
    /\ UNCHANGED <<PI_AVAILABLE, req, image, artifact, epd, lay, probe, http>>

\* lines 81 and 155: epd.sleep()
EpdSleep(t) ==
    /\ pc[t] = "sleep"
    /\ \E fault \in BOOLEAN :
          /\ log' = Append(log, Event(t, "sleep", "", ~fault))
          /\ IF fault THEN Raise(t, "sleep") ELSE Goto(t, "return")
    /\ UNCHANGED <<PI_AVAILABLE, req, image, artifact, epd, lay, probe, http>>

\* display_image lines 84-87: the mock branch still opens the image
MockImage(t) ==
    /\ pc[t] = "mock_image"
    /\ IF Opens(req[t].path)
       THEN /\ image' = [image EXCEPT ![t] = OpenImage(req[t].path)]
            /\ Goto(t, "return")
       ELSE /\ image' = image
            /\ Raise(t, "open")
    /\ UNCHANGED <<PI_AVAILABLE, req, log, artifact, epd, lay, probe, http>>

Saved_KeepFirst(old, img) == IF old = None THEN img ELSE old

\* line 162: image.save(debug_path) writes the one file bmps/text_preview.bmp
\* anew: what it held before is gone
Saved(old, img) == img

\* display_text lines 158-163: image.save(debug_path)
MockText(t) ==
    /\ pc[t] = "mock_text"
    /\ \E fault \in BOOLEAN :
          IF fault
          THEN /\ artifact' = artifact
               /\ Raise(t, "save")
          ELSE /\ artifact' = Saved(artifact, image[t])
               /\ Goto(t, "return")
    /\ UNCHANGED <<PI_AVAILABLE, req, image, log, epd, lay, probe, http>>

Next ==
    \E t \in Threads :
        \/ CallDisplayImage(t)
        \/ CallDisplayText(t)
        \/ Layout(t)
        \/ EpdInit(t)
        \/ EpdClear(t)
        \/ Settle1(t)
        \/ Body(t)
        \/ EpdDisplay(t)
        \/ Settle2(t)
        \/ EpdSleep(t)
        \/ MockImage(t)
        \/ MockText(t)

Spec == Init /\ [][Next]_vars


(***************************************************************************)
(* The layout of display_text, lines 113-146, statement by statement.      *)
(* `lay` holds the arguments and the locals of the call.  What the font    *)
(* engine measures (draw.textbbox) is its own answer: any box for a text   *)
(* that has glyphs, the empty box for the empty string.                    *)
(***************************************************************************)
\* a working dimension smaller than any margin
SmallDim == 2
DimValues == {0 - 1, 0, SmallDim} \cup ((MARGIN - 1) .. MaxDim) \cup {DEFAULT_WIDTH, DEFAULT_HEIGHT}
BoxValues == 0 .. MaxBox
LayTexts == {"", "Hello"}

Boxes_SameForAll(text) == BoxValues \X BoxValues

\* the answers draw.textbbox((0, 0), text, font=font)[2:] can give
Boxes(text) == IF text = "" THEN {<<0, 0>>} ELSE BoxValues \X BoxValues

LoopCond_And(tw, th, lw, lh, size) ==
    (tw > lw - MARGIN /\ th > lh - MARGIN) /\ size > MIN_SIZE

\* line 131: the condition of the while loop
LoopCond(tw, th, lw, lh, size) ==
    (tw > lw - MARGIN \/ th > lh - MARGIN) /\ size > MIN_SIZE

NextSize_By3(size) == size - 3

\* line 132: font_size -= 2
NextSize(size) == size - SIZE_STEP

Centre_TowardZero(outer, inner) ==
    IF outer >= inner THEN (outer - inner) \div 2 ELSE 0 - ((inner - outer) \div 2)

\* lines 137-138: (layout - text) // 2, rounding down
Centre(outer, inner) == (outer - inner) \div 2

\* whether a measured box lies within the margins of the working canvas
Fits(tw, th, lw, lh) == tw <= lw - 10 /\ th <= lh - 10

InitLayout ==
    /\ PI_AVAILABLE = FALSE
    /\ pc = [t \in Threads |-> "idle"]
    /\ req = [t \in Threads |-> NoReq]
    /\ image = [t \in Threads |-> None]
    /\ result = [t \in Threads |-> "none"]
    /\ raised = [t \in Threads |-> "none"]
    /\ log = <<>>
    /\ artifact = None
    /\ epd = [t \in Threads |-> "unset"]
    /\ http = None
    /\ probe = None
    /\ \E txt \in LayTexts, w \in DimValues, h \in DimValues, rot \in BOOLEAN :
          lay = [pc |-> "swap", text |-> txt, max_width |-> w, max_height |-> h,
                 rotate |-> rot, layout_width |-> 0, layout_height |-> 0,
                 image |-> None, font_size |-> 0, text_width |-> 0,
                 text_height |-> 0, x |-> 0, y |-> 0, measured |-> <<>>,
                 error |-> ""]

\* one answer of the font engine, remembered with the size it was asked for
Measured(l, size, box) ==
    Append(l.measured,
           [size |-> size,
            fits |-> Fits(box[1], box[2], l.layout_width, l.layout_height)])

\* lines 113-117
LaySwap ==
    /\ lay.pc = "swap"
    /\ LET sz == LayoutSize(lay.max_width, lay.max_height, lay.rotate) IN
       lay' = [lay EXCEPT !.pc = "new", !.layout_width = sz[1],
                          !.layout_height = sz[2]]
    /\ UNCHANGED <<sessionVars, probe, http>>

\* lines 120-121: Image.new('1', (layout_width, layout_height), 255)
LayNew ==
    /\ lay.pc = "new"
    /\ IF ValidSize(lay.layout_width, lay.layout_height)
       THEN lay' = [lay EXCEPT !.pc = "seed",
                        !.image = NewImage(lay.layout_width, lay.layout_height)]
       ELSE lay' = [lay EXCEPT !.pc = "fault", !.error = "ValueError"]
    /\ UNCHANGED <<sessionVars, probe, http>>

\* lines 124-128: font_size = 40; load the font; measure the text
LaySeed ==
    /\ lay.pc = "seed"
    /\ \E fault \in BOOLEAN, box \in Boxes(lay.text) :
          IF fault
          THEN lay' = [lay EXCEPT !.pc = "fault", !.font_size = SEED_SIZE,
                           !.error = "OSError"]
          ELSE lay' = [lay EXCEPT !.pc = "loop", !.font_size = SEED_SIZE,
                           !.text_width = box[1], !.text_height = box[2],
                           !.measured = Measured(lay, SEED_SIZE, box)]
    /\ UNCHANGED <<sessionVars, probe, http>>

\* lines 131-134: one turn of the while loop
LayShrink ==
    /\ lay.pc = "loop"
    /\ LoopCond(lay.text_width, lay.text_height, lay.layout_width,
                lay.layout_height, lay.font_size)
    /\ \E fault \in BOOLEAN, box \in Boxes(lay.text) :
          IF fault
          THEN lay' = [lay EXCEPT !.pc = "fault", !.error = "OSError",
                           !.font_size = NextSize(lay.font_size)]
          ELSE lay' = [lay EXCEPT !.font_size = NextSize(lay.font_size),
                           !.text_width = box[1], !.text_height = box[2],
                           !.measured = Measured(lay, NextSize(lay.font_size), box)]
    /\ UNCHANGED <<sessionVars, probe, http>>

\* line 131 false, then lines 137-138: the centring offsets
LayCentre ==
    /\ lay.pc = "loop"
    /\ ~LoopCond(lay.text_width, lay.text_height, lay.layout_width,
                 lay.layout_height, lay.font_size)
    /\ lay' = [lay EXCEPT !.pc = "draw",
                   !.x = Centre(lay.layout_width, lay.text_width),
                   !.y = Centre(lay.layout_height, lay.text_height)]
    /\ UNCHANGED <<sessionVars, probe, http>>

\* line 141: draw.text((x, y), text, font=font, fill=0)
LayDraw ==
    /\ lay.pc = "draw"
    /\ lay' = [lay EXCEPT !.pc = "rotate", !.image = DrawText(lay.image, lay.text)]
    /\ UNCHANGED <<sessionVars, probe, http>>

\* lines 144-146: if rotate: image = image.rotate(270, expand=True)
LayRotate ==
    /\ lay.pc = "rotate"
    /\ lay' = [lay EXCEPT !.pc = "done",
                   !.image = IF lay.rotate THEN Rotate270Expand(lay.image)
                                           ELSE lay.image]
    /\ UNCHANGED <<sessionVars, probe, http>>

NextLayout ==
    \/ LaySwap
    \/ LayNew
    \/ LaySeed
    \/ LayShrink
    \/ LayCentre
    \/ LayDraw
    \/ LayRotate

SpecLayout == InitLayout /\ [][NextLayout]_vars

\* display_text is straight-line code around one loop: a step that can be
\* taken is taken
SpecLayoutFair == SpecLayout /\ WF_vars(NextLayout)

(***************************************************************************)
(* Module load: is_raspberry_pi (lines 13-30) and the computation of       *)
(* PI_AVAILABLE (lines 33-43).  `probe` holds the environment the probe    *)
(* consults and the locals of the load.                                    *)
(***************************************************************************)
\* what open('/proc/device-tree/model', 'r') and f.read() can meet: a board
\* name, or an error
ModelTexts ==
    {<<"Raspberry", "Pi", "4", "Model", "B">>,
     <<"RASPBERRY", "PI", "Zero">>,
     <<"Orange", "Pi", "Zero">>}
OpenErrors == {"FileNotFoundError", "PermissionError"}
ReadErrors == {"OSError", "UnicodeDecodeError"}

\* platform.machine()
Machines ==
    {<<"a", "r", "m", "v", "7", "l">>,
     <<"a", "a", "r", "c", "h", "6", "4">>,
     <<"x", "8", "6", "_", "6", "4">>}

\* str.lower(), word by word
Lower(word) ==
    CASE word \in {"Raspberry", "RASPBERRY"} -> "raspberry"
      [] word \in {"Pi", "PI"} -> "pi"
      [] OTHER -> word

\* line 24: 'raspberry pi' in model.lower()
MentionsPi(model) ==
    \E i \in 1 .. (Len(model) - 1) :
        Lower(model[i]) = "raspberry" /\ Lower(model[i + 1]) = "pi"

\* str.startswith
StartsWith(str, prefix) ==
    /\ Len(str) >= Len(prefix)
    /\ SubSeq(str, 1, Len(prefix)) = prefix

\* line 25: except (FileNotFoundError, IOError, OSError); IOError is OSError,
\* FileNotFoundError and PermissionError are subclasses of it
Caught(exc) == exc \in {"FileNotFoundError", "PermissionError", "OSError"}

Fallback_Or(machine, gpiomem) == StartsWith(machine, <<"a", "r", "m">>) \/ gpiomem

\* line 30: platform.machine().startswith('arm') and os.path.exists('/dev/gpiomem')
Fallback(machine, gpiomem) == StartsWith(machine, <<"a", "r", "m">>) /\ gpiomem

InitProbe ==
    /\ PI_AVAILABLE = FALSE
    /\ pc = [t \in Threads |-> "idle"]
    /\ req = [t \in Threads |-> NoReq]
    /\ image = [t \in Threads |-> None]
    /\ result = [t \in Threads |-> "none"]
    /\ raised = [t \in Threads |-> "none"]
    /\ log = <<>>
    /\ artifact = None
    /\ epd = [t \in Threads |-> "unset"]
    /\ http = None
    /\ lay = None
    /\ \E o \in {"ok"} \cup OpenErrors, r \in {"ok"} \cup ReadErrors,
          m \in ModelTexts, a \in Machines, g \in BOOLEAN, i \in ImportOutcomes :
          probe = [pc |-> "open", open |-> o, read |-> r, model |-> m,
                   machine |-> a, gpiomem |-> g, import |-> i,
                   error |-> "none", ret |-> "none", flag |-> "unset"]

\* an exception inside the try block of is_raspberry_pi: handled (pass, on
\* to the fallback) or leaving the function, and with it the module load
ProbeRaise(exc) ==
    IF Caught(exc)
    THEN probe' = [probe EXCEPT !.pc = "fallback", !.error = exc]
    ELSE probe' = [probe EXCEPT !.pc = "crashed", !.error = exc, !.ret = "raised"]

\* line 22: open('/proc/device-tree/model', 'r')
ProbeOpen ==
    /\ probe.pc = "open"
    /\ IF probe.open = "ok"
       THEN probe' = [probe EXCEPT !.pc = "read"]
       ELSE ProbeRaise(probe.open)
    /\ UNCHANGED <<sessionVars, lay, http>>

\* lines 23-24: model = f.read(); return 'raspberry pi' in model.lower()
ProbeRead ==
    /\ probe.pc = "read"
    /\ IF probe.read = "ok"
       THEN probe' = [probe EXCEPT !.pc = "returned",
                          !.ret = Bool(MentionsPi(probe.model))]
       ELSE ProbeRaise(probe.read)
    /\ UNCHANGED <<sessionVars, lay, http>>

\* line 30: the alternative check
ProbeFallback ==
    /\ probe.pc = "fallback"
    /\ probe' = [probe EXCEPT !.pc = "returned",
                     !.ret = Bool(Fallback(probe.machine, probe.gpiomem))]
    /\ UNCHANGED <<sessionVars, lay, http>>

\* lines 33-43: the flag is set from the probe and the import of the driver
LoadFlag ==
    /\ probe.pc = "returned"
    /\ IF LoadCrashes(probe.ret, probe.import)
       THEN /\ probe' = [probe EXCEPT !.pc = "crashed", !.error = probe.import]
            /\ PI_AVAILABLE' = PI_AVAILABLE
       ELSE /\ probe' = [probe EXCEPT !.pc = "loaded",
                              !.flag = LoadedFlag(probe.ret, probe.import)]
            /\ PI_AVAILABLE' = (LoadedFlag(probe.ret, probe.import) = "True")
    /\ UNCHANGED <<threadVars, lay, http>>

NextProbe ==
    \/ ProbeOpen
    \/ ProbeRead
    \/ ProbeFallback
    \/ LoadFlag

SpecProbe == InitProbe /\ [][NextProbe]_vars

(***************************************************************************)
(* The HTTP handlers of app.py that call into the display module, one      *)
(* request at a time: upload_image (POST /upload) and show_text            *)
(* (POST /display-text).                                                   *)
(***************************************************************************)
BAD_REQUEST == 400
CREATED == 201
OK == 200
SERVER_ERROR == 500

\* app.py:8
UPLOAD_FOLDER == <<"b", "m", "p", "s">>

\* file.filename of the uploaded part
Filenames ==
    {<<>>,
     <<"a", ".", "b", "m", "p">>,
     <<"A", ".", "B", "M", "P">>,
     <<"a", ".", "p", "n", "g">>,
     <<"b", "m", "p">>}

\* str.lower(), character by character
LowerChar(c) ==
    CASE c = "A" -> "a"
      [] c = "B" -> "b"
      [] c = "M" -> "m"
      [] c = "P" -> "p"
      [] OTHER -> c
LowerStr(str) == [i \in DOMAIN str |-> LowerChar(str[i])]

\* str.endswith
EndsWith(str, suffix) ==
    /\ Len(str) >= Len(suffix)
    /\ SubSeq(str, Len(str) - Len(suffix) + 1, Len(str)) = suffix

\* line 28: file.filename.lower().endswith('.bmp')
IsBmp(filename) == EndsWith(LowerStr(filename), <<".", "b", "m", "p">>)

\* line 32: os.path.join(UPLOAD_FOLDER, file.filename)
Join(folder, name) == folder \o <<"/">> \o name

\* request.json: nothing, a JSON object or a JSON array
Json(type, keys, text, width, items) ==
    [type |-> type, keys |-> keys, text |-> text, max_width |-> width,
     items |-> items]
NoBody == Json("none", {}, "", 0, <<>>)
Dict(keys, text, width) == Json("dict", keys, text, width, <<>>)
List(items) == Json("list", {}, "", 0, items)
JsonBodies ==
    {NoBody,
     Dict({}, "", 0),
     Dict({"text"}, "Hi", 0),
     Dict({"text"}, "", 0),
     Dict({"text", "max_width"}, "Hi", MaxDim),
     Dict({"max_width"}, "", MaxDim),
     List(<<>>),
     List(<<"text">>)}

\* line 87: `not data`
Falsy(data) ==
    \/ data.type = "none"
    \/ data.type = "dict" /\ data.keys = {}
    \/ data.type = "list" /\ data.items = <<>>

\* line 87: `'text' in data`, on a dict its keys, on a list its items
Contains(data, key) ==
    IF data.type = "dict"
    THEN key \in data.keys
    ELSE \E i \in DOMAIN data.items : data.items[i] = key

\* line 90: data['text'] is defined on a dict; a list takes integer indices
\* only and raises TypeError
Subscriptable(data) == data.type = "dict"

\* lines 93-94: data.get(key, default)
Get(data, key, default) ==
    IF key = "max_width" /\ key \in data.keys THEN data.max_width ELSE default

AfterChecks_DisplayFirst == "u_display"

\* lines 31-36: the file is saved, then shown
AfterChecks == "u_save"

IdleHttp(stored) ==
    [pc |-> "idle", route |-> "", has_file |-> FALSE, filename |-> <<>>,
     data |-> NoBody, path |-> <<>>, stored |-> stored, calls |-> 0,
     arg |-> <<>>, success |-> FALSE, status |-> 0, error |-> ""]

InitHttp ==
    /\ http = IdleHttp({})
    /\ PI_AVAILABLE \in BOOLEAN
    /\ pc = [t \in Threads |-> "idle"]
    /\ req = [t \in Threads |-> NoReq]
    /\ image = [t \in Threads |-> None]
    /\ result = [t \in Threads |-> "none"]
    /\ raised = [t \in Threads |-> "none"]
    /\ epd = [t \in Threads |-> "unset"]
    /\ log = <<>>
    /\ artifact = None
    /\ lay = None
    /\ probe = None

Respond(status) == http' = [http EXCEPT !.pc = "responded", !.status = status]

\* an exception leaves the handler: Flask answers 500
Unhandled(exc) ==
    http' = [http EXCEPT !.pc = "responded", !.status = SERVER_ERROR,
                         !.error = exc]

\* a POST /upload arrives, with or without a part named 'file'
PostUpload ==
    /\ http.pc = "idle"
    /\ \E has \in BOOLEAN, name \in Filenames :
          /\ has \/ name = <<>>
          /\ http' = [http EXCEPT !.pc = "u_check", !.route = "upload",
                                  !.has_file = has, !.filename = name]
    /\ UNCHANGED <<sessionVars, lay, probe>>

\* a POST /display-text arrives
PostDisplayText ==
    /\ http.pc = "idle"
    /\ \E body \in JsonBodies :
          http' = [http EXCEPT !.pc = "t_check", !.route = "display-text",
                               !.data = body]
    /\ UNCHANGED <<sessionVars, lay, probe>>

\* upload_image lines 18-32
UploadChecks ==
    /\ http.pc = "u_check"
    /\ IF ~http.has_file \/ http.filename = <<>> \/ ~IsBmp(http.filename)
       THEN Respond(BAD_REQUEST)
       ELSE http' = [http EXCEPT !.pc = AfterChecks,
                                 !.path = Join(UPLOAD_FOLDER, http.filename)]
    /\ UNCHANGED <<sessionVars, lay, probe>>

\* line 33: file.save(file_path); it can fail like any write
UploadSave ==
    /\ http.pc = "u_save"
    /\ \E fault \in BOOLEAN :
          IF fault
          THEN Unhandled("OSError")
          ELSE http' = [http EXCEPT !.pc = "u_display",
                                    !.stored = http.stored \cup {http.path}]
    /\ UNCHANGED <<sessionVars, lay, probe>>

\* lines 36-41: success = display_image(file_path), which returns a boolean
UploadDisplay ==
    /\ http.pc = "u_display"
    /\ \E success \in BOOLEAN :
          http' = [http EXCEPT !.pc = "responded",
                               !.calls = http.calls + 1,
                               !.arg = http.path,
                               !.success = success,
                               !.status = IF success THEN CREATED
                                                     ELSE SERVER_ERROR]
    /\ UNCHANGED <<sessionVars, lay, probe>>

\* show_text lines 85-90
TextChecks ==
    /\ http.pc = "t_check"
    /\ IF Falsy(http.data) \/ ~Contains(http.data, "text")
       THEN Respond(BAD_REQUEST)
       ELSE IF ~Subscriptable(http.data)
            THEN Unhandled("TypeError")
            ELSE http' = [http EXCEPT !.pc = "t_display"]
    /\ UNCHANGED <<sessionVars, lay, probe>>

\* lines 93-102: success = display_text(text, max_width, max_height)
TextDisplay ==
    /\ http.pc = "t_display"
    /\ \E success \in BOOLEAN :
          http' = [http EXCEPT !.pc = "responded",
                               !.calls = http.calls + 1,
                               !.arg = <<http.data.text,
                                         Get(http.data, "max_width", DEFAULT_WIDTH),
                                         Get(http.data, "max_height", DEFAULT_HEIGHT)>>,
                               !.success = success,
                               !.status = IF success THEN OK ELSE SERVER_ERROR]
    /\ UNCHANGED <<sessionVars, lay, probe>>

\* the response is sent; what was saved stays in the upload folder
NextRequest ==
    /\ http.pc = "responded"
    /\ http' = IdleHttp(http.stored)
    /\ UNCHANGED <<sessionVars, lay, probe>>

NextHttp ==
    \/ PostUpload
    \/ PostDisplayText
    \/ UploadChecks
    \/ UploadSave
    \/ UploadDisplay
    \/ TextChecks
    \/ TextDisplay
    \/ NextRequest

SpecHttp == InitHttp /\ [][NextHttp]_vars

(***************************************************************************)
(* What a session did, read off the global log.                            *)
(***************************************************************************)
OfSession(t, e) == e.s = t
IsDriverOp(e) == e.op \in DriverOps
IsDriverOpOf(t, e) == e.s = t /\ e.op \in DriverOps

\* the operations and waits of session t, in order
SessionLog(t) == SelectSeq(log, LAMBDA e : OfSession(t, e))
\* the driver operations of session t, in order
DriverLog(t) == SelectSeq(log, LAMBDA e : IsDriverOpOf(t, e))
\* the driver operations of all sessions, in their global order
GlobalDriverLog == SelectSeq(log, IsDriverOp)

Done(t) == pc[t] = "done"
OpsOf(l) == [i \in DOMAIN l |-> l[i].op]

\* some step of thread t
StepOf(t) ==
    \/ CallDisplayImage(t) \/ CallDisplayText(t) \/ Layout(t) \/ EpdInit(t)
    \/ EpdClear(t) \/ Settle1(t) \/ Body(t) \/ EpdDisplay(t) \/ Settle2(t)
    \/ EpdSleep(t) \/ MockImage(t) \/ MockText(t)

(***************************************************************************)
(* C1: on the Real backend, display_image of a path that cannot be opened  *)
(* returns False and issues no driver operation during the call.           *)
(***************************************************************************)
C1_MissingImageNoDriverOps ==
    \A t \in Threads :
        (PI_AVAILABLE /\ req[t].kind = "image" /\ ~Opens(req[t].path))
            => /\ DriverLog(t) = <<>>
               /\ (Done(t) => result[t] = "False")

Active(t) == DriverLog(t) # <<>> /\ ~Done(t)


(***************************************************************************)
(* C2: on the Real backend the driver operations of two concurrent         *)
(* requests never interleave: in the global order every operation of one   *)
(* session comes before every operation of the other, and at most one      *)
(* session is active (has begun its protocol and not finished) at a time.  *)
(***************************************************************************)
C2_NoInterleaving ==
    PI_AVAILABLE =>
        /\ \A i, j, k \in DOMAIN GlobalDriverLog :
              (i < j /\ j < k /\ GlobalDriverLog[i].s = GlobalDriverLog[k].s)
                  => GlobalDriverLog[j].s = GlobalDriverLog[i].s
        /\ Cardinality({t \in Threads : Active(t)}) <= 1

(***************************************************************************)
(* C3: display_image and display_text never raise to the caller: a call    *)
(* that has started can always go on until it has returned, what it        *)
(* returns is a boolean, False exactly when some stage raised.             *)
(***************************************************************************)
C3_NeverRaises ==
    \A t \in Threads :
        /\ result[t] # "raised"
        /\ (pc[t] \notin {"idle", "done"} => ENABLED StepOf(t))
        /\ Done(t) => /\ result[t] \in {"True", "False"}
                      /\ (result[t] = "False") <=> (raised[t] # "none")

C3_Witness ==
    /\ Done("t1") /\ raised["t1"] = "layout" /\ result["t1"] = "False"
    /\ Done("t2") /\ raised["t2"] = "sleep" /\ result["t2"] = "False"

(***************************************************************************)
(* C4: on the Real backend a call that returned True has issued exactly    *)
(* init(full-update LUT), clear(0xFF), wait 2, push(buffer), wait 2,       *)
(* sleep, each once, in that order, none of them failing.                  *)
(***************************************************************************)
C4_FullSequenceOnSuccess ==
    \A t \in Threads :
        (PI_AVAILABLE /\ Done(t) /\ result[t] = "True") =>
            LET l == SessionLog(t) IN
            /\ OpsOf(l) = <<"init", "clear", "wait", "push", "wait", "sleep">>
            /\ l[1].arg = "lut_full_update"
            /\ l[2].arg = CLEAR_FILL
            /\ l[3].arg = SETTLE
            /\ l[4].arg = image[t]
            /\ l[5].arg = SETTLE
            /\ \A i \in DOMAIN l : l[i].ok

C4_Witness ==
    /\ PI_AVAILABLE
    /\ Done("t1") /\ result["t1"] = "True" /\ req["t1"].kind = "image"
    /\ Done("t2") /\ result["t2"] = "True" /\ req["t2"].kind = "text"

(***************************************************************************)
(* C5: on the Real backend a protocol step that fails is the last driver   *)
(* operation of its session, and the call does not return True.            *)
(***************************************************************************)
C5_AbortOnFailure ==
    \A t \in Threads :
        LET d == DriverLog(t) IN
        \A i \in DOMAIN d :
            ~d[i].ok => /\ i = Len(d)
                        /\ result[t] # "True"
                        /\ (Done(t) => result[t] = "False")

C5_Witness ==
    /\ Done("t1") /\ OpsOf(DriverLog("t1")) = <<"init", "clear">>
    /\ ~DriverLog("t1")[2].ok
    /\ Done("t2") /\ OpsOf(DriverLog("t2")) = <<"init", "clear", "push">>
    /\ ~DriverLog("t2")[3].ok

(***************************************************************************)
(* C6: on the Real backend, when init or clear fails, a release step       *)
(* (sleep, the only operation of the driver that powers the panel down)    *)
(* is still performed on the driver before the call returns.               *)
(***************************************************************************)
C6_ReleaseAfterEarlyFailure ==
    \A t \in Threads :
        LET d == DriverLog(t) IN
        (Done(t) /\ \E i \in DOMAIN d : d[i].op \in {"init", "clear"} /\ ~d[i].ok)
            => \E j \in DOMAIN d :
                   /\ d[j].op = "sleep"
                   /\ \A i \in DOMAIN d : ~d[i].ok => i < j

(***************************************************************************)
(* C7 as stated: every two consecutive protocol steps of a session are     *)
(* separated by a settle delay; none directly follows the previous one.    *)
(***************************************************************************)
C7_EveryStepSeparated ==
    \A t \in Threads :
        LET l == SessionLog(t) IN
        \A i \in DOMAIN l :
            (i < Len(l) /\ IsDriverOp(l[i])) =>
                /\ l[i + 1].op = "wait"
                /\ l[i + 1].arg = SETTLE

(***************************************************************************)
(* C7 as amended: clear and push, and push and sleep, are separated by a   *)
(* settle delay of 2; init and clear are issued back to back.              *)
(***************************************************************************)
C7_SettleAfterClearAndPush ==
    \A t \in Threads :
        LET l == SessionLog(t) IN
        \A i \in DOMAIN l :
            i < Len(l) =>
                /\ l[i].op \in {"clear", "push"} =>
                       l[i + 1].op = "wait" /\ l[i + 1].arg = SETTLE
                /\ l[i].op = "init" => l[i + 1].op = "clear"
                /\ l[i].op = "wait" => l[i + 1].op \in {"push", "sleep"}

C7_Witness ==
    \E t \in Threads :
        OpsOf(SessionLog(t)) = <<"init", "clear", "wait", "push", "wait", "sleep">>

Candidates == {n \in 8 .. 40 : n % 2 = 0}
SearchOver == lay # None /\ lay.pc \in {"draw", "rotate", "done"}
LastMeasured == lay.measured[Len(lay.measured)]


(***************************************************************************)
(* C8: the font size the autofit search settles on is the largest of       *)
(* 40, 38, ..., 10, 8 at which the measured box fits within the margins,   *)
(* and 8 when none fits, whatever the font engine answers.                 *)
(***************************************************************************)
C8_LargestFittingSize ==
    SearchOver =>
        LET m == lay.measured IN
        /\ lay.font_size \in Candidates
        /\ \A n \in Candidates :
              n > lay.font_size =>
                  /\ \E i \in DOMAIN m : m[i].size = n
                  /\ \A i \in DOMAIN m : m[i].size = n => ~m[i].fits
        /\ LastMeasured.size = lay.font_size
        /\ LastMeasured.fits \/ lay.font_size = 8
        /\ \A i, j \in DOMAIN m : m[i].size = m[j].size => i = j

C8_Witness ==
    /\ lay # None /\ lay.pc = "done"
    /\ lay.font_size = 24 /\ LastMeasured.fits
    /\ Len(lay.measured) = 9

(***************************************************************************)
(* C9: for positive max_width w and max_height h the canvas display_text   *)
(* ends with is exactly (w, h): the working canvas is (w, h) without       *)
(* rotation and stays, and is (h, w) with rotation and is turned to (w, h).*)
(***************************************************************************)
C9_CanvasSize ==
    (lay # None /\ lay.image # None) =>
        /\ lay.max_width >= 0 /\ lay.max_height >= 0
        /\ lay.pc \in {"seed", "loop", "draw", "rotate"} =>
              /\ lay.image.width = (IF lay.rotate THEN lay.max_height ELSE lay.max_width)
              /\ lay.image.height = (IF lay.rotate THEN lay.max_width ELSE lay.max_height)
        /\ lay.pc = "done" =>
              /\ lay.image.width = lay.max_width
              /\ lay.image.height = lay.max_height

C9_Witness ==
    /\ lay # None /\ lay.pc = "done" /\ lay.rotate /\ lay.text = "Hello"
    /\ lay.layout_width = 250 /\ lay.layout_height = 122
    /\ lay.image.width = 122 /\ lay.image.height = 250

ReadFailed == probe # None /\ (probe.open # "ok" \/ probe.read # "ok")


OSFailure ==
    /\ probe # None
    /\ \/ probe.open \in {"FileNotFoundError", "PermissionError"}
       \/ probe.open = "ok" /\ probe.read = "OSError"


C11_ArtifactIsLatestCanvas ==
    [][ /\ \A t \in Threads :
              (pc[t] = "mock_text" /\ pc'[t] = "done" /\ raised'[t] = "none")
                  => /\ ~PI_AVAILABLE
                     /\ result'[t] = "True"
                     /\ artifact' = Render(req[t])
        /\ artifact' # artifact =>
              \E t \in Threads : pc[t] = "mock_text" /\ result'[t] = "True"
      ]_vars

C11_Witness ==
    /\ ~PI_AVAILABLE
    /\ \E t, u \in Threads :
          /\ req[t].kind = "text" /\ result[t] = "True"
          /\ req[u].kind = "text" /\ result[u] = "True"
          /\ image[t] # image[u]
          /\ artifact = image[u]

RealSteps == {"init", "clear", "settle1", "body", "display", "settle2", "sleep"}
MockSteps == {"mock_image", "mock_text"}

(***************************************************************************)
(* C12: PI_AVAILABLE is what the module load made of the probe and the     *)
(* driver import (True exactly when the probe said True and the import     *)
(* succeeded) and no step of a session writes it; the check inside         *)
(* init_and_clear_display agrees with the one that chose the branch (the   *)
(* call never gets None for a driver), and a session that is in a Real     *)
(* step has taken no Simulated step and the other way round.               *)
(***************************************************************************)
C12_FlagFixedAtLoad ==
    /\ [](PI_AVAILABLE <=> (probe.ret = "True" /\ probe.import = "ok"))
    /\ [][PI_AVAILABLE' = PI_AVAILABLE]_vars
    /\ [](\A t \in Threads :
            /\ epd[t] # "None"
            /\ epd[t] = "EPD" => PI_AVAILABLE
            /\ pc[t] \in RealSteps => PI_AVAILABLE
            /\ pc[t] \in MockSteps => ~PI_AVAILABLE /\ SessionLog(t) = <<>>
            /\ SessionLog(t) # <<>> => PI_AVAILABLE /\ artifact = None)

C12_Witness ==
    /\ probe.ret = "True" /\ probe.import = "ImportError" /\ ~PI_AVAILABLE
    /\ \E t, u \in Threads :
          /\ t # u
          /\ req[t].kind = "text" /\ result[t] = "True"
          /\ req[u].kind = "image" /\ pc[u] = "mock_image"

\* faults of the driver itself, and of writing the preview file
DriverFaults == {"init", "clear", "display", "sleep"}

\* what the Real branch returns for the call of t when no driver step
\* faults: lines 76-77 need the file to open and to encode; the layout of
\* display_text is shared by both branches
RealWould(t) ==
    IF req[t].kind = "image"
    THEN Opens(req[t].path) /\ Encodes(req[t].path)
    ELSE raised[t] # "layout"

(***************************************************************************)
(* C13: a finished call in which no driver step faulted (and the preview   *)
(* file could be written) has returned what the Real backend returns for   *)
(* that input, whichever backend is active.                                *)
(***************************************************************************)
C13_SameResultAsReal ==
    \A t \in Threads :
        (Done(t) /\ raised[t] \notin DriverFaults \cup {"save"})
            => result[t] = Bool(RealWould(t))

\* the same on the Real backend alone, where it holds
C13_RealAgrees == PI_AVAILABLE => C13_SameResultAsReal

\* the preconditions of the two handlers, as the request shows them
PreconditionFails ==
    IF http.route = "upload"
    THEN ~http.has_file \/ http.filename = <<>> \/ ~IsBmp(http.filename)
    ELSE ~(http.data.type = "dict" /\ "text" \in http.data.keys)

(***************************************************************************)
(* C14: a request whose precondition fails (no file part, empty filename,  *)
(* not a .bmp name, no JSON body, no text field) is answered 400 without   *)
(* any call of display_image or display_text; every other request calls    *)
(* the display operation exactly once and is answered 201 (upload) or 200  *)
(* (display-text) when it returned True, 500 when it returned False.       *)
(***************************************************************************)
C14_StatusFollowsPreconditions ==
    http.pc = "responded" =>
        IF PreconditionFails
        THEN http.status = BAD_REQUEST /\ http.calls = 0
        ELSE /\ http.calls = 1
             /\ http.status = IF ~http.success THEN SERVER_ERROR
                              ELSE IF http.route = "upload" THEN CREATED ELSE OK

\* the part of C14 that stands: the display operation is never called when
\* a precondition fails, and never twice
C14_NoCallOnFailedPrecondition ==
    /\ http.calls <= 1
    /\ PreconditionFails => http.calls = 0
    /\ (http.pc = "responded" /\ http.calls = 1) =>
          http.status = IF ~http.success THEN SERVER_ERROR
                        ELSE IF http.route = "upload" THEN CREATED ELSE OK

(***************************************************************************)
(* C17: display_image is called only once the upload is stored at the      *)
(* path it is given, and nothing removes a stored file: it is still there  *)
(* when the response is sent, 201 or 500.                                  *)
(***************************************************************************)
C17_SavedBeforeDisplayAndKept ==
    /\ [][http'.calls > http.calls /\ http.route = "upload"
             => http.path \in http.stored /\ http'.arg = http.path]_vars
    /\ [][http.stored \subseteq http'.stored]_vars
    /\ []((http.pc = "responded" /\ http.route = "upload" /\ http.calls = 1)
             => http.arg \in http.stored)

C17_Witness ==
    /\ http.pc = "responded" /\ http.route = "upload" /\ http.calls = 1
    /\ ~http.success /\ http.status = SERVER_ERROR
    /\ http.arg = Join(UPLOAD_FOLDER, <<"A", ".", "B", "M", "P">>)
    /\ http.arg \in http.stored

Roomy == lay.layout_width >= 10 /\ lay.layout_height >= 10

C16_BackendEffectsDisjoint ==
    /\ [](~PI_AVAILABLE => log = <<>>)
    /\ [](PI_AVAILABLE => artifact = None)
    /\ [][\A t \in Threads :
             (pc'[t] # pc[t] /\ req'[t].kind = "image") => artifact' = artifact]_vars

C16_Witness ==
    /\ ~PI_AVAILABLE /\ log = <<>>
    /\ \E t, u \in Threads :
          /\ req[t].kind = "image" /\ result[t] = "True"
          /\ req[u].kind = "text" /\ result[u] = "True"
          /\ artifact = image[u]

\* the Real side of the same: driver operations issued, no artifact
C16_WitnessReal ==
    /\ PI_AVAILABLE /\ artifact = None
    /\ \E t \in Threads :
          /\ req[t].kind = "text" /\ result[t] = "True"
          /\ OpsOf(DriverLog(t)) = <<"init", "clear", "push", "sleep">>

\* the arguments of t's call lay out without error
LaysOut(t) ==
    ValidSize(LayoutSize(req[t].max_width, req[t].max_height, req[t].rotate)[1],
              LayoutSize(req[t].max_width, req[t].max_height, req[t].rotate)[2])

(***************************************************************************)
(* C18: in a display_text call the layout is over before the first driver  *)
(* operation: while the call is still laying out, and when the layout      *)
(* faulted (the call then returns False), the session has issued no driver *)
(* operation and no wait; once a driver operation is issued the canvas is  *)
(* the finished one, it is what gets pushed, and no later step changes it. *)
(***************************************************************************)
C18_LayoutBeforeDriver ==
    /\ [](\A t \in Threads : req[t].kind = "text" =>
            /\ pc[t] = "layout" => SessionLog(t) = <<>>
            /\ raised[t] = "layout" => result[t] = "False" /\ SessionLog(t) = <<>>
            /\ SessionLog(t) # <<>> =>
                  /\ LaysOut(t) /\ image[t] = Render(req[t])
                  /\ \A i \in DOMAIN SessionLog(t) :
                        SessionLog(t)[i].op = "push" =>
                            SessionLog(t)[i].arg = Render(req[t]))
    /\ [][\A t \in Threads :
             (req[t].kind = "text" /\ SessionLog(t) # <<>>) =>
                 image'[t] = image[t] /\ pc'[t] # "layout"]_vars

C18_Witness ==
    \E t, u \in Threads :
        /\ req[t].kind = "text" /\ raised[t] = "layout" /\ result[t] = "False"
        /\ LaysOut(t) /\ SessionLog(t) = <<>>
        /\ req[u].kind = "text" /\ result[u] = "True"
        /\ OpsOf(DriverLog(u)) = <<"init", "clear", "push", "sleep">>

Centred == lay # None /\ lay.pc \in {"draw", "rotate", "done"}

(***************************************************************************)
(* C19: the offsets are the floors of half the slack, x = floor((lw-tw)/2) *)
(* and y = floor((lh-th)/2); when the search ended with the text fitting,  *)
(* x >= 5, y >= 5, x + tw <= lw - 5 and y + th <= lh - 5; and an offset is *)
(* negative only when the measured text is larger than the working         *)
(* dimension on that axis.                                                 *)
(***************************************************************************)
C19_CentringOffsets ==
    Centred =>
        LET lw == lay.layout_width
            lh == lay.layout_height
            tw == lay.text_width
            th == lay.text_height
        IN  /\ 2 * lay.x <= lw - tw /\ lw - tw < 2 * lay.x + 2
            /\ 2 * lay.y <= lh - th /\ lh - th < 2 * lay.y + 2
            /\ (tw <= lw - 10 /\ th <= lh - 10) =>
                  /\ lay.x >= 5 /\ lay.y >= 5
                  /\ lay.x + tw <= lw - 5
                  /\ lay.y + th <= lh - 5
            /\ lay.x < 0 => tw > lw
            /\ lay.y < 0 => th > lh

\* an odd negative slack, where rounding down and rounding to zero differ
C19_Witness ==
    /\ Centred /\ lay.pc = "done"
    /\ lay.layout_width = 2 /\ lay.text_width = 3 /\ lay.x = 0 - 1
    /\ lay.layout_height = 12 /\ lay.text_height = 1 /\ lay.y = 5

\* the fitting case of C19
C19_WitnessFits ==
    /\ Centred /\ lay.pc = "done" /\ LastMeasured.fits
    /\ lay.layout_width = 12 /\ lay.text_width = 2 /\ lay.x = 5
    /\ lay.layout_height = 250 /\ lay.text_height = 3 /\ lay.y = 123

LayoutOver == lay.pc \in {"done", "fault"}
\* font_size has been assigned (line 124)
Seeded ==
    \/ lay.pc \in {"loop", "draw", "rotate", "done"}
    \/ lay.pc = "fault" /\ lay.error = "OSError"

(***************************************************************************)
(* C20: the autofit loop terminates. From the seed on, font_size is an     *)
(* even number in 8..40; every turn of the loop lowers it by exactly 2;    *)
(* the i-th measurement is taken at 40 - 2(i-1), so there are at most 16   *)
(* turns after the seed; the layout always comes to an end; and text that  *)
(* still does not fit at 8 is centred, drawn and returned, not failed.     *)
(***************************************************************************)
C20_AutofitTerminates ==
    /\ [](Seeded =>
            /\ lay.font_size \in 8 .. 40 /\ lay.font_size % 2 = 0
            /\ Len(lay.measured) <= 17
            /\ \A i \in DOMAIN lay.measured :
                  lay.measured[i].size = 40 - 2 * (i - 1))
    /\ [][(lay.pc = "loop" /\ lay'.font_size # lay.font_size) =>
             /\ lay'.font_size = lay.font_size - 2
             /\ lay.font_size > 8]_vars
    /\ <>LayoutOver
    /\ [](lay.pc = "loop" /\ lay.font_size = 8 => <>(lay.pc = "done"))

C20_Witness ==
    /\ lay.pc = "done" /\ lay.text = "Hello" /\ lay.font_size = 8
    /\ Len(lay.measured) = 17 /\ ~LastMeasured.fits
    /\ lay.image.ink = "Hello"

=============================================================================
